---- MODULE Spec2Model ----
(***************************************************************************)
(* Model of cargo-rpm's Builder (src/src/builder.rs): construction, the    *)
(* build() pipeline (cargo build, archive, spec rendering, rpmbuild), the  *)
(* placeholder substitution and the interpretation of the output path.     *)
(*                                                                         *)
(* Text (Rust String / &str / PathBuf contents) is a sequence of           *)
(* one-character strings.  An Option<T> is a sequence of length 0 (None)   *)
(* or 1 (Some).  A location in the file system is an absolute path: the    *)
(* sequence of its components.                                             *)
(***************************************************************************)
EXTENDS Integers, Sequences, FiniteSets, TLC

VARIABLES
    config,        \* PackageConfig: name, version, release, metadata
    cli,           \* arguments handed to Builder::new
    faults,        \* which failures the environment may exhibit
    builder,       \* Option<Builder>
    pc,            \* position of the run
    trace,         \* steps of build() executed in this run, with their success
    cargo_status,  \* Option<ExitStatus> of the compiler in this run
    location,      \* Option<(dir, filename)> returned by get_rpm_dir_and_filename
    rpmbuild_args, \* Option<argument list> handed to Rpmbuild::exec
    exit,          \* Option<how the run ended>
    dirs,          \* file system: the directories (absolute paths)
    files,         \* file system: the regular files (absolute paths)
    spec_file,     \* Option<content> of <rpmbuild_dir>/SPECS/<name>.spec
    template,      \* Option<content> of <rpm_config_dir>/<name>.spec
    cwd,           \* working directory of the process (absolute path)
    start,         \* file system and working directory when the run began
    runs           \* number of runs started

vars == <<config, cli, faults, builder, pc, trace, cargo_status, location,
          rpmbuild_args, exit, dirs, files, spec_file, template, cwd, start, runs>>

----------------------------------------------------------------------------
\* Bounds of the model.

MaxRuns == 2
MaxPieces == 3
MaxPathLen == 4

----------------------------------------------------------------------------
\* Options.

None == <<>>
Some(x) == <<x>>
IsSome(o) == Len(o) = 1
Get(o) == o[1]

----------------------------------------------------------------------------
\* Constants of the source.

DEFAULT_PROFILE == <<"r","e","l","e","a","s","e">>
VERSION_PLACEHOLDER == <<"@","@","V","E","R","S","I","O","N","@","@">>
RELEASE_PLACEHOLDER == <<"@","@","R","E","L","E","A","S","E","@","@">>
DEFAULT_NAME_FMT ==
    <<"%","{","N","A","M","E","}","-","%","{","V","E","R","S","I","O","N","}","-",
      "%","{","R","E","L","E","A","S","E","}",".","%","{","A","R","C","H","}",
      ".","r","p","m">>
RPMBUILD == <<"r","p","m","b","u","i","l","d">>
RPMS == <<"R","P","M","S">>
SRPMS == <<"S","R","P","M","S">>
BUILD == <<"B","U","I","L","D">>
SOURCES == <<"S","O","U","R","C","E","S">>
SPECS == <<"S","P","E","C","S">>
TMP == <<"t","m","p">>
WorkTreeDirs == <<RPMS, SRPMS, BUILD, SOURCES, SPECS, TMP>>
SLASH == <<"/">>
DOT_SPEC == <<".","s","p","e","c">>
DOT_TAR_GZ == <<".","t","a","r",".","g","z">>
OPT_BA == <<"-","b","a">>
OPT_D == <<"-","D">>
OPT_TARGET == <<"-","-","t","a","r","g","e","t">>
TOPDIR_MACRO == <<"_","t","o","p","d","i","r"," ">>
TMPPATH_MACRO == <<"_","t","m","p","p","a","t","h"," ">>
RPMDIR_MACRO == <<"_","r","p","m","d","i","r"," ">>
BUILD_NAME_FMT_MACRO ==
    <<"_","b","u","i","l","d","_","n","a","m","e","_","f","m","t"," ">>

----------------------------------------------------------------------------
\* Text.

StartsWith(s, p) == Len(p) <= Len(s) /\ SubSeq(s, 1, Len(p)) = p
EndsWith(s, p) == Len(p) <= Len(s) /\ SubSeq(s, Len(s) - Len(p) + 1, Len(s)) = p
Contains(s, c) == \E i \in 1..Len(s) : s[i] = c
Drop(s, n) == SubSeq(s, n + 1, Len(s))

\* A replacement of the first match only (str::replacen with a count of 1).
StrReplaceFirst(s, from, to) ==
    LET at == {i \in 1..(Len(s) - Len(from) + 1) : SubSeq(s, i, i + Len(from) - 1) = from}
        k == CHOOSE i \in at : \A j \in at : i <= j
    IN  IF at = {} THEN s
        ELSE SubSeq(s, 1, k - 1) \o to \o Drop(s, k + Len(from) - 1)

\* str::replace: every match of `from`, found left to right without overlap,
\* becomes `to`.
RECURSIVE StrReplace(_, _, _)
StrReplace(s, from, to) ==
    IF Len(s) < Len(from) THEN s
    ELSE IF StartsWith(s, from)
         THEN to \o StrReplace(Drop(s, Len(from)), from, to)
         ELSE <<Head(s)>> \o StrReplace(Tail(s), from, to)

\* Position of the last '/' of s, 0 when there is none.
LastSlash(s) ==
    LET at == {i \in 1..Len(s) : s[i] = "/"}
    IN  IF at = {} THEN 0 ELSE CHOOSE i \in at : \A j \in at : j <= i

\* A split at the first '/' instead (str::splitn(2, '/')).
SplitN2(s) ==
    LET at == {i \in 1..Len(s) : s[i] = "/"}
        k == CHOOSE i \in at : \A j \in at : i <= j
    IN  IF at = {} THEN <<s>>
        ELSE <<SubSeq(s, 1, k - 1), SubSeq(s, k + 1, Len(s))>>

\* str::rsplitn(2, '/') collected: the text after the last '/', then the text
\* before it; a single part, the whole text, when there is no '/'.
RSplitN2(s) ==
    LET k == LastSlash(s)
    IN  IF k = 0 THEN <<s>>
        ELSE <<SubSeq(s, k + 1, Len(s)), SubSeq(s, 1, k - 1)>>

----------------------------------------------------------------------------
\* Paths.

IsAbsolute(s) == StartsWith(s, SLASH)

\* Path::join (PathBuf::push on Unix): an absolute argument replaces the
\* path; otherwise it is appended, after a separator when one is needed.
PathJoin(p, s) ==
    IF IsAbsolute(s) THEN s
    ELSE IF p = <<>> \/ EndsWith(p, SLASH) THEN p \o s
    ELSE p \o SLASH \o s

\* Path::components without the root: the non-empty texts between separators.
RECURSIVE Components(_)
Components(s) ==
    IF s = <<>> THEN <<>>
    ELSE LET at == {i \in 1..Len(s) : s[i] = "/"}
             k == IF at = {} THEN Len(s) + 1
                  ELSE CHOOSE i \in at : \A j \in at : i <= j
             rest == Components(Drop(s, k))
         IN  IF k = 1 THEN rest ELSE <<SubSeq(s, 1, k - 1)>> \o rest

\* The absolute path a path text names in working directory d.
Resolve(s, d) == IF IsAbsolute(s) THEN Components(s) ELSE d \o Components(s)

Prefixes(p) == {SubSeq(p, 1, k) : k \in 0..Len(p)}

\* Path::is_dir: the empty path names nothing.
IsDir(s, d, ds) == s # <<>> /\ Resolve(s, d) \in ds

\* A creation that fails on a directory that is already there (fs::create_dir
\* semantics for the last component).
CreateDirStrict(p, ds, fs) ==
    IF p \in ds \/ \E q \in Prefixes(p) : q \in fs
    THEN [ok |-> FALSE, dirs |-> ds]
    ELSE [ok |-> TRUE, dirs |-> ds \cup Prefixes(p)]

\* fs::create_dir_all: fails when a regular file is in the way, otherwise
\* leaves the directory and all its parents present.
CreateDirAll(p, ds, fs) ==
    IF \E q \in Prefixes(p) : q \in fs
    THEN [ok |-> FALSE, dirs |-> ds]
    ELSE [ok |-> TRUE, dirs |-> ds \cup Prefixes(p)]

----------------------------------------------------------------------------
\* Builder::new

\* The profile and target of [package.metadata.rpm.cargo], defaulted.
ResolvedProfile(md) ==
    IF IsSome(md.cargo) /\ IsSome(Get(md.cargo).profile)
    THEN Get(Get(md.cargo).profile)
    ELSE DEFAULT_PROFILE

\* A target that is never taken from the metadata.
ResolvedTargetIgnored(md) == <<>>

ResolvedTarget(md) ==
    IF IsSome(md.cargo) /\ IsSome(Get(md.cargo).target)
    THEN Get(Get(md.cargo).target)
    ELSE <<>>

\* The Builder that new() returns when the rpm metadata is present.
NewBuilder(cfg, c) ==
    LET md == Get(cfg.metadata)
        target_dir ==
            PathJoin(PathJoin(c.base_target_dir, ResolvedTarget(md)),
                     ResolvedProfile(md))
    IN  [config |-> cfg,
         verbose |-> c.verbose,
         no_cargo_build |-> c.no_cargo_build,
         output_path |-> c.output_path,
         rpm_config_dir |-> c.rpm_config_dir,
         target_dir |-> target_dir,
         rpmbuild_dir |-> PathJoin(target_dir, RPMBUILD)]

----------------------------------------------------------------------------
\* How a run ends.

ProcessExit(code, why) == [kind |-> "exit", code |-> code, error |-> why]
ReturnErr(why) == [kind |-> "err", code |-> 0, error |-> why]
ReturnOk == [kind |-> "ok", code |-> 0, error |-> "none"]
Panic(why) == [kind |-> "panic", code |-> 0, error |-> why]

----------------------------------------------------------------------------
\* Builder::build: the order of the steps.

\* The first step of build(): the compiler, unless no_cargo_build.
FirstStep(no_cargo_build) ==
    IF no_cargo_build THEN "create_archive" ELSE "cargo_build"

\* A build() that goes on to the next step whatever the step returned.
AfterStepIgnoringFailure(step, ok) ==
    CASE step = "cargo_build" -> "create_archive"
      [] step = "create_archive" -> "render_spec"
      [] step = "render_spec" -> "rpmbuild"
      [] step = "rpmbuild" -> "done"

\* Where build() goes after a step: `?` returns at the first failure.
AfterStep(step, ok) ==
    IF ~ok THEN "failed"
    ELSE CASE step = "cargo_build" -> "create_archive"
           [] step = "create_archive" -> "render_spec"
           [] step = "render_spec" -> "rpmbuild"
           [] step = "rpmbuild" -> "done"

\* Bookkeeping common to the steps: the step is recorded, build() moves on or
\* returns, and the outcome of the run is set when it ends.
Finish(step, ok, failure) ==
    /\ trace' = Append(trace, [step |-> step, ok |-> ok])
    /\ pc' = AfterStep(step, ok)
    /\ exit' = IF ~ok THEN Some(failure)
               ELSE IF AfterStep(step, ok) = "done" THEN Some(ReturnOk)
               ELSE exit

----------------------------------------------------------------------------
\* Builder::cargo_build

Exited(code) == [kind |-> "exited", code |-> code]
Signaled == [kind |-> "signaled", code |-> 0]
SpawnError == [kind |-> "spawn_error", code |-> 0]

\* ExitStatus::success and ExitStatus::code
StatusSuccess(st) == st.kind = "exited" /\ st.code = 0
StatusCode(st) == IF st.kind = "exited" THEN Some(st.code) ELSE None

\* An exit code that is 1 whatever the compiler's was.
CargoExitCodeOne(st) == 1

\* The exit code of the process when the compiler did not succeed.
CargoExitCode(st) == IF IsSome(StatusCode(st)) THEN Get(StatusCode(st)) ELSE 1

CargoOutcomes(fts) ==
    {Exited(0)} \cup
    (IF "cargo" \in fts THEN {Exited(1), Exited(7), Signaled, SpawnError} ELSE {})

CargoBuild ==
    /\ pc = "cargo_build"
    /\ \E st \in CargoOutcomes(faults) :
        /\ cargo_status' = Some(st)
        /\ IF st.kind = "spawn_error"
           THEN Finish("cargo_build", FALSE, ReturnErr("io"))
           ELSE Finish("cargo_build", StatusSuccess(st),
                       ProcessExit(CargoExitCode(st), "cargo"))
    /\ UNCHANGED <<config, cli, faults, builder, location, rpmbuild_args, dirs,
                   files, spec_file, template, cwd, start, runs>>

----------------------------------------------------------------------------
\* Builder::create_archive

ArchiveFile(cfg) == cfg.name \o <<"-">> \o cfg.version \o DOT_TAR_GZ

ArchiveOutcomes(fts) == {TRUE} \cup (IF "archive" \in fts THEN {FALSE} ELSE {})

CreateArchive ==
    /\ pc = "create_archive"
    /\ LET b == Get(builder)
           sources_dir == Resolve(PathJoin(b.rpmbuild_dir, SOURCES), cwd)
           made == CreateDirAll(sources_dir, dirs, files)
       IN  IF ~made.ok
           THEN /\ Finish("create_archive", FALSE, ReturnErr("io"))
                /\ UNCHANGED <<dirs, files>>
           ELSE \E built \in ArchiveOutcomes(faults) :
                /\ dirs' = made.dirs
                /\ files' = IF built
                            THEN files \cup {sources_dir \o <<ArchiveFile(b.config)>>}
                            ELSE files
                /\ Finish("create_archive", built, ReturnErr("archive"))
    /\ UNCHANGED <<config, cli, faults, builder, cargo_status, location,
                   rpmbuild_args, spec_file, template, cwd, start, runs>>

----------------------------------------------------------------------------
\* Builder::render_spec

SpecFilename(cfg) == cfg.name \o DOT_SPEC

\* The rendered text: the version placeholder replaced, then the release
\* placeholder.
RenderTemplate(spec_template, version, release) ==
    LET spec_ver_rendered == StrReplace(spec_template, VERSION_PLACEHOLDER, version)
    IN  StrReplace(spec_ver_rendered, RELEASE_PLACEHOLDER, release)

RenderSpec ==
    /\ pc = "render_spec"
    /\ LET b == Get(builder)
           spec_dir == Resolve(PathJoin(b.rpmbuild_dir, SPECS), cwd)
           made == CreateDirAll(spec_dir, dirs, files)
       IN  IF ~IsSome(template) \/ ~made.ok
           THEN /\ Finish("render_spec", FALSE, ReturnErr("io"))
                /\ UNCHANGED <<dirs, files, spec_file>>
           ELSE /\ dirs' = made.dirs
                /\ files' = files \cup {spec_dir \o <<SpecFilename(b.config)>>}
                /\ spec_file' = Some(RenderTemplate(Get(template), b.config.version,
                                                    b.config.release))
                /\ Finish("render_spec", TRUE, ReturnErr("io"))
    /\ UNCHANGED <<config, cli, faults, builder, cargo_status, location,
                   rpmbuild_args, template, cwd, start, runs>>

----------------------------------------------------------------------------
\* Builder::get_rpm_dir_and_filename, evaluated in working directory d with
\* the directories ds.  `panicked` is the index out of bounds of
\* path_str_parts[1] when rsplitn yields a single part.
GetRpmDirAndFilename(output_path, d, ds) ==
    IF ~IsSome(output_path) THEN [panicked |-> FALSE, value |-> None]
    ELSE LET path_str == Get(output_path)
             path_str_parts == RSplitN2(path_str)
         IN  IF EndsWith(path_str, SLASH) \/ IsDir(path_str, d, ds)
             THEN [panicked |-> FALSE,
                   value |-> Some([dir |-> path_str, filename |-> DEFAULT_NAME_FMT])]
             ELSE IF Len(path_str_parts) < 2
             THEN [panicked |-> TRUE, value |-> None]
             ELSE [panicked |-> FALSE,
                   value |-> Some([dir |-> IF path_str_parts[2] = <<>>
                                           THEN SLASH
                                           ELSE path_str_parts[2],
                                   filename |-> path_str_parts[1]])]

----------------------------------------------------------------------------
\* Builder::rpmbuild

\* The loop creating the directories rpmbuild needs, from the i-th on; it
\* returns at the first failure, keeping what it created.
RECURSIVE CreateWorkTreeFrom(_, _, _, _)
CreateWorkTreeFrom(i, base, ds, fs) ==
    IF i > Len(WorkTreeDirs) THEN [ok |-> TRUE, dirs |-> ds]
    ELSE LET made == CreateDirAll(base \o <<WorkTreeDirs[i]>>, ds, fs)
         IN  IF ~made.ok THEN made
             ELSE CreateWorkTreeFrom(i + 1, base, made.dirs, fs)

CreateWorkTree(base, ds, fs) == CreateWorkTreeFrom(1, base, ds, fs)

\* config.metadata.rpm.target_architecture
TargetArchitecture(cfg) ==
    IF IsSome(cfg.metadata) THEN Get(cfg.metadata).target_architecture ELSE None

\* An argument list with the --target pair ahead of the output macros.
RpmbuildArgsTargetFirst(b, loc) ==
    LET spec_path == SPECS \o SLASH \o b.config.name \o DOT_SPEC
        topdir_macro == TOPDIR_MACRO \o b.rpmbuild_dir
        tmppath_macro == TMPPATH_MACRO \o PathJoin(b.rpmbuild_dir, TMP)
        arch == TargetArchitecture(b.config)
    IN  <<OPT_BA, spec_path, OPT_D, topdir_macro, OPT_D, tmppath_macro>>
        \o (IF IsSome(arch) THEN <<OPT_TARGET, Get(arch)>> ELSE <<>>)
        \o (IF IsSome(loc)
            THEN <<OPT_D, RPMDIR_MACRO \o Get(loc).dir,
                   OPT_D, BUILD_NAME_FMT_MACRO \o Get(loc).filename>>
            ELSE <<>>)

\* The argument list of rpmbuild, given the output location (an Option).
RpmbuildArgs(b, loc) ==
    LET spec_path == SPECS \o SLASH \o b.config.name \o DOT_SPEC
        topdir_macro == TOPDIR_MACRO \o b.rpmbuild_dir
        tmppath_macro == TMPPATH_MACRO \o PathJoin(b.rpmbuild_dir, TMP)
        arch == TargetArchitecture(b.config)
    IN  <<OPT_BA, spec_path, OPT_D, topdir_macro, OPT_D, tmppath_macro>>
        \o (IF IsSome(loc)
            THEN <<OPT_D, RPMDIR_MACRO \o Get(loc).dir,
                   OPT_D, BUILD_NAME_FMT_MACRO \o Get(loc).filename>>
            ELSE <<>>)
        \o (IF IsSome(arch) THEN <<OPT_TARGET, Get(arch)>> ELSE <<>>)

ToolOutcomes(fts) ==
    {"ok"} \cup (IF "rpmbuild" \in fts THEN {"missing", "failed"} ELSE {})

Rpmbuild ==
    /\ pc = "rpmbuild"
    /\ \E tool \in ToolOutcomes(faults) :
        LET b == Get(builder)
            work == Resolve(b.rpmbuild_dir, cwd)
            tree == CreateWorkTree(work, dirs, files)
            loc == GetRpmDirAndFilename(b.output_path, work, tree.dirs)
        IN  IF tool = "missing"
            THEN /\ Finish("rpmbuild", FALSE, ReturnErr("rpmbuild"))
                 /\ UNCHANGED <<dirs, cwd, location, rpmbuild_args>>
            ELSE IF ~tree.ok
            THEN /\ dirs' = tree.dirs
                 /\ Finish("rpmbuild", FALSE, ReturnErr("io"))
                 /\ UNCHANGED <<cwd, location, rpmbuild_args>>
            ELSE IF loc.panicked
            THEN /\ dirs' = tree.dirs
                 /\ cwd' = work
                 /\ Finish("rpmbuild", FALSE, Panic("index out of bounds"))
                 /\ UNCHANGED <<location, rpmbuild_args>>
            ELSE /\ dirs' = tree.dirs
                 /\ cwd' = work
                 /\ location' = loc.value
                 /\ rpmbuild_args' = Some(RpmbuildArgs(b, loc.value))
                 /\ Finish("rpmbuild", tool = "ok", ReturnErr("rpmbuild"))
    /\ UNCHANGED <<config, cli, faults, builder, cargo_status, files, spec_file,
                   template, start, runs>>

----------------------------------------------------------------------------
\* Builder::new followed by the entry of build()

\* A new() that defaults absent rpm metadata instead of ending the run.
NewDefaultingMetadata ==
    /\ pc = "start"
    /\ LET cfg == IF IsSome(config.metadata) THEN config
                  ELSE [config EXCEPT !.metadata =
                            Some([cargo |-> None, target_architecture |-> None])]
       IN  /\ builder' = Some(NewBuilder(cfg, cli))
           /\ pc' = FirstStep(cli.no_cargo_build)
           /\ exit' = exit
    /\ UNCHANGED <<config, cli, faults, trace, cargo_status, location,
                   rpmbuild_args, dirs, files, spec_file, template, cwd, start, runs>>

New ==
    /\ pc = "start"
    /\ IF ~IsSome(config.metadata)
       THEN /\ builder' = None
            /\ pc' = "failed"
            /\ exit' = Some(ProcessExit(1, "no_rpm_metadata"))
       ELSE /\ builder' = Some(NewBuilder(config, cli))
            /\ pc' = FirstStep(NewBuilder(config, cli).no_cargo_build)
            /\ exit' = exit
    /\ UNCHANGED <<config, cli, faults, trace, cargo_status, location,
                   rpmbuild_args, dirs, files, spec_file, template, cwd, start, runs>>

\* The program is run again on the same project: a new process, in the
\* directory it was first run in, on the file system the last run left.
Rerun ==
    /\ pc \in {"done", "failed"}
    /\ runs < MaxRuns
    /\ runs' = runs + 1
    /\ pc' = "start"
    /\ builder' = None
    /\ trace' = <<>>
    /\ cargo_status' = None
    /\ location' = None
    /\ rpmbuild_args' = None
    /\ exit' = None
    /\ cwd' = start.cwd
    /\ start' = [dirs |-> dirs, files |-> files, spec_file |-> spec_file,
                 cwd |-> start.cwd]
    /\ UNCHANGED <<config, cli, faults, dirs, files, spec_file, template>>

Next == New \/ CargoBuild \/ CreateArchive \/ RenderSpec \/ Rpmbuild \/ Rerun

----------------------------------------------------------------------------
\* Inputs.

FOO == <<"f","o","o">>
V_1_2 == <<"1",".","2">>
R_1 == <<"1">>
RPM_CONFIG_DIR == <<".","r","p","m">>
PROJECT_DIR == << <<"w">> >>
AllFaults == {"cargo", "archive", "rpmbuild"}

Metadata(profiles, targets, archs) ==
    {None} \cup
    {Some([cargo |-> c, target_architecture |-> a]) :
        c \in {None} \cup {Some([profile |-> p, target |-> t]) :
                              p \in profiles, t \in targets},
        a \in archs}

Configs(versions, releases, mds) ==
    [name : {FOO}, version : versions, release : releases, metadata : mds]

Clis(skips, outputs, bases) ==
    [verbose : {FALSE}, no_cargo_build : skips, output_path : outputs,
     rpm_config_dir : {RPM_CONFIG_DIR}, base_target_dir : bases]

\* What is present under the work directory before the first run.
WorkTreeNames == {WorkTreeDirs[i] : i \in 1..Len(WorkTreeDirs)}
Trees(names) ==
    {t \in [dirs : SUBSET names, files : SUBSET names] : t.dirs \cap t.files = {}}

\* The work directory new() will derive, as an absolute path.
WorkDirOf(cfg, c) == Resolve(NewBuilder(cfg, c).rpmbuild_dir, PROJECT_DIR)

InitialDirs(cfg, c, ext, tree) ==
    UNION {Prefixes(p) : p \in {PROJECT_DIR} \cup ext} \cup
    (IF IsSome(cfg.metadata) /\ tree.dirs \cup tree.files # {}
     THEN Prefixes(WorkDirOf(cfg, c)) \cup {WorkDirOf(cfg, c) \o <<d>> : d \in tree.dirs}
     ELSE {})

InitialFiles(cfg, c, tree) ==
    IF IsSome(cfg.metadata)
    THEN {WorkDirOf(cfg, c) \o <<d>> : d \in tree.files}
    ELSE {}

InitFrom(cfgs, clis, fts, tpls, exts, trees) ==
    /\ config \in cfgs
    /\ cli \in clis
    /\ faults \in fts
    /\ template \in tpls
    /\ \E ext \in exts, tree \in trees :
        /\ dirs = InitialDirs(config, cli, ext, tree)
        /\ files = InitialFiles(config, cli, tree)
    /\ spec_file = None
    /\ cwd = PROJECT_DIR
    /\ start = [dirs |-> dirs, files |-> files, spec_file |-> None, cwd |-> PROJECT_DIR]
    /\ builder = None
    /\ pc = "start"
    /\ trace = <<>>
    /\ cargo_status = None
    /\ location = None
    /\ rpmbuild_args = None
    /\ exit = None
    /\ runs = 1

\* The whole pipeline, with every failure of the environment possible.
P_DBG == <<"d","b","g">>
P_ABS == <<"/","p">>
T_TRIPLE == <<"t","t">>
ARCH == <<"n","o","a","r","c","h">>
O_DIR == <<"/","o","/">>
O_FILE == <<"/","o","/","c">>
O_REL == <<"o","/","c">>
O_BARE == <<"c">>
TEMPLATE_1 == <<"V",":">> \o VERSION_PLACEHOLDER \o <<"-">> \o RELEASE_PLACEHOLDER

Init ==
    InitFrom(Configs({V_1_2}, {R_1},
                     Metadata({None, Some(P_DBG), Some(P_ABS)},
                              {None, Some(T_TRIPLE)}, {None, Some(ARCH)})),
             Clis(BOOLEAN, {None, Some(O_DIR), Some(O_FILE), Some(O_REL),
                            Some(O_BARE), Some(TMP)},
                  {<<"t","g">>, <<"/","t","g">>}),
             {AllFaults},
             {None, Some(TEMPLATE_1)},
             {{}, {PROJECT_DIR \o <<<<"o">>, <<"c">>>>}},
             {t \in Trees(WorkTreeNames) :
                 t.files \subseteq {TMP} /\ t.dirs \in {{}, {SOURCES}, WorkTreeNames \ {TMP}}})

Spec == Init /\ [][Next]_vars

----------------------------------------------------------------------------
\* Specifications with one input drawn widely and the others fixed; the
\* environment exhibits no failure of its own in them.

DefaultMetadata == Some([cargo |-> None, target_architecture |-> None])
BASE_DIR == <<"t","g">>

\* Texts made of at most n of the given pieces.
RECURSIVE Texts(_, _)
Texts(pieces, n) ==
    IF n = 0 THEN {<<>>}
    ELSE LET shorter == Texts(pieces, n - 1)
         IN  shorter \cup {f \o t : f \in pieces, t \in shorter}

\* spec templates: placeholders, fragments of placeholders and other text.
TemplatePieces ==
    {VERSION_PLACEHOLDER, RELEASE_PLACEHOLDER,
     <<"@","@","V","E","R">>, <<"I","O","N","@","@">>,
     <<"V","E","R","S","I","O","N","@","@">>,
     <<"R","E","L","E","A","S","E","@","@">>,
     <<"x">>}

InitRender ==
    InitFrom(Configs({V_1_2, <<"S">>, <<>>, RELEASE_PLACEHOLDER},
                     {R_1, VERSION_PLACEHOLDER}, {DefaultMetadata}),
             Clis({FALSE}, {None}, {BASE_DIR}),
             {{}},
             {Some(t) : t \in Texts(TemplatePieces, MaxPieces)},
             {{}},
             {[dirs |-> {}, files |-> {}]})

SpecRender == InitRender /\ [][Next]_vars

\* output paths: every text of at most MaxPathLen of these characters, and
\* the two paths the documentation gives.
PathChars == {<<"/">>, <<"t">>, <<"m">>, <<"p">>}
OUT_DIR == <<"/","o","u","t","/">>
OUT_CUSTOM == OUT_DIR \o <<"c","u","s","t","o","m",".","r","p","m">>

InitPath ==
    InitFrom(Configs({V_1_2}, {R_1}, {DefaultMetadata}),
             Clis({FALSE},
                  {Some(t) : t \in Texts(PathChars, MaxPathLen) \cup {OUT_DIR, OUT_CUSTOM}},
                  {BASE_DIR}),
             {{}},
             {Some(TEMPLATE_1)},
             SUBSET {<< <<"t">> >>, PROJECT_DIR \o << <<"m">> >>},
             {[dirs |-> {}, files |-> {}]})

SpecPath == InitPath /\ [][Next]_vars

\* work trees: any of the six names present before the first run, as a
\* directory or as a regular file.
InitTree ==
    InitFrom(Configs({V_1_2}, {R_1}, {DefaultMetadata}),
             Clis(BOOLEAN, {None}, {BASE_DIR}),
             {{}},
             {Some(TEMPLATE_1)},
             {{}},
             Trees(WorkTreeNames))

SpecTree == InitTree /\ [][Next]_vars

----------------------------------------------------------------------------
\* Vocabulary of the properties.

Steps == [i \in 1..Len(trace) |-> trace[i].step]

\* The steps of a complete run, in order.
FullOrder ==
    (IF cli.no_cargo_build THEN <<>> ELSE <<"cargo_build">>)
    \o <<"create_archive", "render_spec", "rpmbuild">>

LastStep == trace[Len(trace)]

\* The work directory of the run, as an absolute path.
WorkDir == Resolve(Get(builder).rpmbuild_dir, start.cwd)

\* rpmbuild() got past the creation of the work tree and the change of
\* directory, and so called get_rpm_dir_and_filename.
LocationAsked ==
    /\ trace # <<>>
    /\ LastStep.step = "rpmbuild"
    /\ cwd # start.cwd

\* Two path texts naming the same path.
SamePath(a, b) == IsAbsolute(a) = IsAbsolute(b) /\ Components(a) = Components(b)

\* All places where p occurs in s, overlapping ones included.
Occurrences(s, p) ==
    {i \in 1..(Len(s) + 1) :
        i + Len(p) - 1 <= Len(s) /\ SubSeq(s, i, i + Len(p) - 1) = p}
CountOcc(s, p) == Cardinality(Occurrences(s, p))

----------------------------------------------------------------------------
\* C1: in every run of build() the steps execute at most once each and in the
\* order compile-or-skip, archive, render spec, rpmbuild, Done; a step starts
\* only after all earlier ones succeeded; a failing step ends the run there
\* and Done is not reached; when compilation is skipped the compiler is never
\* invoked and the run starts with the archive step.
C1_StepsInOrder ==
    /\ Len(trace) <= Len(FullOrder)
    /\ Steps = SubSeq(FullOrder, 1, Len(trace))
    /\ \A i \in 1..(Len(trace) - 1) : trace[i].ok
    /\ (\E i \in 1..Len(trace) : ~trace[i].ok) => pc = "failed"
    /\ pc = "done" <=> (Len(trace) = Len(FullOrder) /\ \A i \in 1..Len(trace) : trace[i].ok)
    /\ pc \notin {"start", "done", "failed"} => pc = FullOrder[Len(trace) + 1]
    /\ cli.no_cargo_build => cargo_status = None

C1_Witness ==
    /\ pc = "done"
    /\ cli.no_cargo_build
    /\ Steps = <<"create_archive", "render_spec", "rpmbuild">>

\* C2: when the compiler runs and exits with a non-zero code c, the run ends
\* with process exit code c (1 when the compiler reports no code), and no
\* later step executes: the file system is as it was when the run began.
C2_CompilerFailure ==
    (/\ IsSome(cargo_status)
     /\ Get(cargo_status).kind # "spawn_error"
     /\ ~(Get(cargo_status).kind = "exited" /\ Get(cargo_status).code = 0))
    => /\ pc = "failed"
       /\ IsSome(exit)
       /\ Get(exit).kind = "exit"
       /\ Get(exit).code = (IF Get(cargo_status).kind = "exited"
                            THEN Get(cargo_status).code ELSE 1)
       /\ Steps = <<"cargo_build">>
       /\ rpmbuild_args = None
       /\ dirs = start.dirs
       /\ files = start.files
       /\ spec_file = start.spec_file

C2_Witness ==
    /\ cargo_status = Some(Exited(7))
    /\ IsSome(exit)
    /\ Get(exit).code = 7
    /\ runs = 2
    /\ IsSome(spec_file)

\* C3 as stated: for every template with N occurrences of @@VERSION@@ and M
\* of @@RELEASE@@ and every version and release, the rendered text holds
\* neither placeholder, the version exactly N times and the release exactly
\* M times.  (Occurrences of an empty value are not counted.)
C3_AsStated ==
    (/\ IsSome(spec_file)
     /\ IsSome(template)
     /\ config.version # <<>>
     /\ config.release # <<>>)
    => LET out == Get(spec_file)
           tpl == Get(template)
       IN  /\ CountOcc(out, VERSION_PLACEHOLDER) = 0
           /\ CountOcc(out, RELEASE_PLACEHOLDER) = 0
           /\ CountOcc(out, config.version) = CountOcc(tpl, VERSION_PLACEHOLDER)
           /\ CountOcc(out, config.release) = CountOcc(tpl, RELEASE_PLACEHOLDER)

\* The characters of the two placeholders.
PlaceholderChars ==
    {VERSION_PLACEHOLDER[i] : i \in 1..Len(VERSION_PLACEHOLDER)} \cup
    {RELEASE_PLACEHOLDER[i] : i \in 1..Len(RELEASE_PLACEHOLDER)}

\* A value that is not empty and has no character of a placeholder.
PlainValue(x) == x # <<>> /\ \A i \in 1..Len(x) : x[i] \notin PlaceholderChars

\* No two placeholder occurrences of the text overlap.
PlaceholdersApart(s) ==
    LET at == Occurrences(s, VERSION_PLACEHOLDER) \cup Occurrences(s, RELEASE_PLACEHOLDER)
    IN  \A i, j \in at : i < j => j - i >= Len(VERSION_PLACEHOLDER)

\* The text with each placeholder occurrence replaced where it stands, in one
\* pass over the text.
RECURSIVE Substituted(_, _, _)
Substituted(s, version, release) ==
    IF s = <<>> THEN <<>>
    ELSE IF StartsWith(s, VERSION_PLACEHOLDER)
    THEN version \o Substituted(Drop(s, Len(VERSION_PLACEHOLDER)), version, release)
    ELSE IF StartsWith(s, RELEASE_PLACEHOLDER)
    THEN release \o Substituted(Drop(s, Len(RELEASE_PLACEHOLDER)), version, release)
    ELSE <<Head(s)>> \o Substituted(Tail(s), version, release)

\* C3, amended: when the version and the release are non-empty and share no
\* character with the placeholders, the rendered text holds neither
\* placeholder; when moreover no two of the N + M placeholder occurrences of
\* the template overlap, the rendered text is the template with exactly those
\* N occurrences replaced by the version and those M by the release, all other
\* content unchanged, so the values appear at least N and M times.
C3_Rendered ==
    (/\ IsSome(spec_file)
     /\ IsSome(template)
     /\ PlainValue(config.version)
     /\ PlainValue(config.release))
    => LET out == Get(spec_file)
           tpl == Get(template)
           n == CountOcc(tpl, VERSION_PLACEHOLDER)
           m == CountOcc(tpl, RELEASE_PLACEHOLDER)
       IN  /\ CountOcc(out, VERSION_PLACEHOLDER) = 0
           /\ CountOcc(out, RELEASE_PLACEHOLDER) = 0
           /\ PlaceholdersApart(tpl) =>
                /\ out = Substituted(tpl, config.version, config.release)
                /\ Len(out) = Len(tpl)
                              + n * (Len(config.version) - Len(VERSION_PLACEHOLDER))
                              + m * (Len(config.release) - Len(RELEASE_PLACEHOLDER))
                /\ CountOcc(out, config.version) >= n
                /\ CountOcc(out, config.release) >= m

C3_Witness ==
    /\ IsSome(spec_file)
    /\ IsSome(template)
    /\ PlainValue(config.version)
    /\ PlainValue(config.release)
    /\ PlaceholdersApart(Get(template))
    /\ CountOcc(Get(template), VERSION_PLACEHOLDER) = 2
    /\ CountOcc(Get(template), RELEASE_PLACEHOLDER) = 1
    /\ Get(spec_file) = config.version \o config.release \o config.version

\* C4 as stated: for an output path without '/' that names no existing
\* directory (a bare filename, so not empty), get_rpm_dir_and_filename yields
\* the directory "/" and the whole path as the filename.
C4_BareFilename ==
    (/\ pc \in {"done", "failed"}
     /\ LocationAsked
     /\ IsSome(cli.output_path)
     /\ Get(cli.output_path) # <<>>
     /\ ~Contains(Get(cli.output_path), "/")
     /\ ~IsDir(Get(cli.output_path), cwd, dirs))
    => location = Some([dir |-> SLASH, filename |-> Get(cli.output_path)])

\* C5: for an output path p with a '/': when p ends in '/' or names an
\* existing directory the location is (p, the default filename pattern);
\* otherwise it is (the text before the last '/', the text after it), the
\* directory being "/" when that text is empty.  "/out/" gives ("/out/",
\* default pattern) and "/out/custom.rpm" gives ("/out", "custom.rpm").
C5_PathWithSlash ==
    (/\ LocationAsked
     /\ IsSome(cli.output_path)
     /\ Contains(Get(cli.output_path), "/"))
    => LET p == Get(cli.output_path)
           k == CHOOSE i \in 1..Len(p) :
                    p[i] = "/" /\ \A j \in (i + 1)..Len(p) : p[j] # "/"
           before == SubSeq(p, 1, k - 1)
           after == SubSeq(p, k + 1, Len(p))
       IN  /\ IsSome(location)
           /\ IF p[Len(p)] = "/" \/ Resolve(p, cwd) \in dirs
              THEN Get(location) = [dir |-> p, filename |-> DEFAULT_NAME_FMT]
              ELSE Get(location) = [dir |-> IF before = <<>> THEN <<"/">> ELSE before,
                                    filename |-> after]
           /\ p = OUT_DIR
                => Get(location) = [dir |-> OUT_DIR, filename |-> DEFAULT_NAME_FMT]
           /\ p = OUT_CUSTOM
                => Get(location) = [dir |-> <<"/","o","u","t">>,
                                    filename |-> <<"c","u","s","t","o","m",".","r","p","m">>]

C5_Witness ==
    /\ LocationAsked
    /\ cli.output_path = Some(<<"/","t","/","m">>)
    /\ location = Some([dir |-> <<"/","t">>, filename |-> <<"m">>])


\* C6: the argument list handed to rpmbuild is -ba, SPECS/<name>.spec, -D,
\* "_topdir <work-dir>", -D, "_tmppath <work-dir>/tmp"; then -D,
\* "_rpmdir <dir>", -D, "_build_name_fmt <filename>" exactly when an output
\* path was supplied; then --target, <arch> exactly when the metadata has a
\* target architecture; and nothing else.
C6_ArgumentList ==
    IsSome(rpmbuild_args)
    => LET a == Get(rpmbuild_args)
           work == Get(builder).rpmbuild_dir
           out == IsSome(cli.output_path)
           arch == IF IsSome(config.metadata)
                   THEN Get(config.metadata).target_architecture ELSE <<>>
           n == 6 + (IF out THEN 4 ELSE 0) + (IF arch # <<>> THEN 2 ELSE 0)
       IN  /\ Len(a) = n
           /\ SubSeq(a, 1, 6) =
                <<OPT_BA,
                  <<"S","P","E","C","S","/">> \o config.name \o <<".","s","p","e","c">>,
                  OPT_D, <<"_","t","o","p","d","i","r"," ">> \o work,
                  OPT_D, <<"_","t","m","p","p","a","t","h"," ">> \o work \o <<"/","t","m","p">>>>
           /\ out <=> IsSome(location)
           /\ out => SubSeq(a, 7, 10) =
                <<OPT_D, <<"_","r","p","m","d","i","r"," ">> \o Get(location).dir,
                  OPT_D, BUILD_NAME_FMT_MACRO \o Get(location).filename>>
           /\ arch # <<>> => SubSeq(a, n - 1, n) = <<OPT_TARGET, Get(arch)>>

C6_Witness ==
    /\ IsSome(rpmbuild_args)
    /\ Len(Get(rpmbuild_args)) = 12
    /\ cli.output_path = Some(O_FILE)

\* C7: without [package.metadata.rpm], new() ends the whole run by a process
\* exit reporting the missing metadata, before any side effect: no compiler
\* or rpmbuild is run, nothing is created, the working directory is kept.  A
\* missing template is reported differently, as an I/O error that build()
\* returns.
C7_NoMetadata ==
    /\ (~IsSome(config.metadata) /\ pc # "start")
       => /\ pc = "failed"
          /\ exit = Some([kind |-> "exit", code |-> 1, error |-> "no_rpm_metadata"])
          /\ builder = None
          /\ trace = <<>>
          /\ cargo_status = None
          /\ rpmbuild_args = None
          /\ dirs = start.dirs
          /\ files = start.files
          /\ spec_file = start.spec_file
          /\ cwd = start.cwd
    /\ (trace # <<>> /\ LastStep = [step |-> "render_spec", ok |-> FALSE]
        /\ ~IsSome(template))
       => /\ exit = Some([kind |-> "err", code |-> 0, error |-> "io"])
          /\ Get(exit) # [kind |-> "exit", code |-> 1, error |-> "no_rpm_metadata"]

C7_Witness ==
    /\ ~IsSome(config.metadata)
    /\ pc = "failed"
    /\ IsSome(exit)
    /\ ~IsSome(template)

\* The build-output directory the claim gives: <base>/<target>/<profile>.
C8_TargetDir ==
    LET md == Get(config.metadata)
        cargo_profile == IF IsSome(md.cargo) THEN Get(md.cargo).profile ELSE <<>>
        cargo_target == IF IsSome(md.cargo) THEN Get(md.cargo).target ELSE <<>>
        profile == IF cargo_profile # <<>> THEN Get(cargo_profile)
                   ELSE <<"r","e","l","e","a","s","e">>
        target == IF cargo_target # <<>> THEN Get(cargo_target) ELSE <<>>
    IN  cli.base_target_dir \o <<"/">> \o target \o <<"/">> \o profile

\* C8 as stated: for every base directory and every metadata, the Builder of
\* new() has build-output directory <base>/<target or empty>/<profile or
\* "release"> and work directory <build-output-dir>/rpmbuild, in every state
\* of the run.
C8_AsStated ==
    IsSome(builder)
    => /\ SamePath(Get(builder).target_dir, C8_TargetDir)
       /\ SamePath(Get(builder).rpmbuild_dir,
                   Get(builder).target_dir \o <<"/","r","p","m","b","u","i","l","d">>)

\* C8, amended: the same, for a target and a profile that are relative paths
\* (an absolute one replaces what precedes it); and no step changes a field of
\* the Builder.
C8_DerivedDirs ==
    IsSome(builder)
    => /\ (~IsAbsolute(ResolvedProfile(Get(config.metadata)))
           /\ ~IsAbsolute(ResolvedTarget(Get(config.metadata))))
          => SamePath(Get(builder).target_dir, C8_TargetDir)
       /\ SamePath(Get(builder).rpmbuild_dir,
                   Get(builder).target_dir \o <<"/","r","p","m","b","u","i","l","d">>)
       /\ Get(builder).config = config
       /\ Get(builder).no_cargo_build = cli.no_cargo_build
       /\ Get(builder).output_path = cli.output_path
       /\ Get(builder).rpm_config_dir = cli.rpm_config_dir

C8_Witness ==
    /\ pc = "done"
    /\ IsSome(builder)
    /\ cli.base_target_dir = <<"/","t","g">>
    /\ Get(builder).target_dir = <<"/","t","g","/","t","t","/","r","e","l","e","a","s","e">>
    /\ Get(builder).rpmbuild_dir =
         <<"/","t","g","/","t","t","/","r","e","l","e","a","s","e","/",
           "r","p","m","b","u","i","l","d">>

\* The six directories of the work tree, as absolute paths.
C9_WorkTree == {WorkDir \o <<d>> : d \in {RPMS, SRPMS, BUILD, SOURCES, SPECS, TMP}}

\* C9: creating the work tree is idempotent and precedes the invocation:
\* from any subset of the six directories present, in a first or a second
\* run, the creation succeeds and leaves all six present; whenever rpmbuild is
\* executed all six exist; and no step removes a directory.
C9_State ==
    IsSome(builder)
    => /\ (IsSome(rpmbuild_args) \/ LocationAsked) => C9_WorkTree \subseteq dirs
       /\ (/\ trace # <<>>
           /\ LastStep = [step |-> "rpmbuild", ok |-> FALSE]
           /\ C9_WorkTree \cap files = {})
          => Get(exit).error # "io"
       /\ (pc = "done" /\ C9_WorkTree \cap files = {}) => IsSome(rpmbuild_args)

C9_Idempotent == [](C9_State) /\ [][dirs \subseteq dirs']_vars

C9_Witness ==
    /\ runs = 2
    /\ IsSome(rpmbuild_args)
    /\ IsSome(builder)
    /\ C9_WorkTree \subseteq start.dirs
    /\ C9_WorkTree \subseteq dirs

\* C10 as stated: the output location in rpmbuild's argument list is the one
\* the output path yields when classified in the working directory the run
\* began in: changing to the work directory does not change the answer of the
\* existing-directory test, relative output paths included.
C10_SameAnswer ==
    (IsSome(rpmbuild_args) /\ IsSome(cli.output_path))
    => /\ IsDir(Get(cli.output_path), cwd, dirs)
            = IsDir(Get(cli.output_path), start.cwd, dirs)
       /\ location = GetRpmDirAndFilename(cli.output_path, start.cwd, dirs).value

====
